---- MODULE Spec2Model ----
(***************************************************************************)
(* Model of the Slack "send direct message" action: the invoke handler     *)
(* (resolve base URL, resolve Authorization, look the user up by email,    *)
(* wait, post the message), the error handler and the halt handler.        *)
(*                                                                         *)
(* JavaScript values are tagged records, strings are TLA+ strings, and a   *)
(* duration is a fixed-point number counted in 1/FracScale milliseconds.   *)
(***************************************************************************)
EXTENDS Integers, Sequences, FiniteSets, TLC

(***************************************************************************)
(* Bounds of the model.                                                    *)
(***************************************************************************)
\* number of invocation slots of the job framework
NumInvocations == 2
\* fixed-point scale of a duration: a value v stands for v / FracScale ms
FracScale == 100

Invocations == 1..NumInvocations

(***************************************************************************)
(* JavaScript values.                                                      *)
(***************************************************************************)
Undef == [t |-> "undefined"]
Null == [t |-> "null"]
Bool(b) == [t |-> "boolean", b |-> b]
Str(s) == [t |-> "string", s |-> s]
Num(n) == [t |-> "number", n |-> n]
\* the only nested object the handlers read is the `user` of a lookup body
UserObj(id) == [t |-> "object", id |-> id]

\* ToBoolean: the test behind `if (x)`, `!x` and `x || y`
Truthy(v) ==
  CASE v.t = "undefined" -> FALSE
    [] v.t = "null" -> FALSE
    [] v.t = "boolean" -> v.b
    [] v.t = "string" -> v.s # ""
    [] v.t = "number" -> v.n # 0
    [] OTHER -> TRUE

\* `a || b`
Or(a, b) == IF Truthy(a) THEN a ELSE b

\* the conversion a template literal applies to an interpolated value
ToStr(v) ==
  CASE v.t = "undefined" -> "undefined"
    [] v.t = "null" -> "null"
    [] v.t = "boolean" -> (IF v.b THEN "true" ELSE "false")
    [] v.t = "string" -> v.s
    [] v.t = "number" -> ToString(v.n)
    [] OTHER -> "[object Object]"

(***************************************************************************)
(* Strings.                                                                *)
(***************************************************************************)
CharAt(s, i) == SubSeq(s, i, i)
StartsWith(s, p) == Len(s) >= Len(p) /\ SubSeq(s, 1, Len(p)) = p
EndsWith(s, p) == Len(s) >= Len(p) /\ SubSeq(s, Len(s) - Len(p) + 1, Len(s)) = p
\* String.prototype.includes
Includes(s, sub) ==
  \E i \in 1..(Len(s) - Len(sub) + 1) : SubSeq(s, i, i + Len(sub) - 1) = sub

\* printable ASCII: codes 32..95 and 97..126 (code 96 cannot be written in a
\* TLA+ string and occurs in no input of the model)
AsciiLow == " !\"#$%&'()*+,-./0123456789:;<=>?@ABCDEFGHIJKLMNOPQRSTUVWXYZ[\\]^_"
AsciiHigh == "abcdefghijklmnopqrstuvwxyz{|}~"
IndexIn(s, c) == CHOOSE i \in 1..Len(s) : CharAt(s, i) = c
CharCode(c) ==
  IF \E i \in 1..Len(AsciiLow) : CharAt(AsciiLow, i) = c
  THEN 31 + IndexIn(AsciiLow, c)
  ELSE 96 + IndexIn(AsciiHigh, c)

Digits == "0123456789"
IsDigit(c) == \E i \in 1..Len(Digits) : CharAt(Digits, i) = c
DigitVal(c) == (CHOOSE i \in 1..Len(Digits) : CharAt(Digits, i) = c) - 1
\* \d+
IsDigits(s) == Len(s) > 0 /\ \A i \in 1..Len(s) : IsDigit(CharAt(s, i))

RECURSIVE DecVal(_)
DecVal(s) ==
  IF Len(s) = 0 THEN 0
  ELSE 10 * DecVal(SubSeq(s, 1, Len(s) - 1)) + DigitVal(CharAt(s, Len(s)))

RECURSIVE Pow10(_)
Pow10(n) == IF n = 0 THEN 1 ELSE 10 * Pow10(n - 1)

(***************************************************************************)
(* Buffer.from(s).toString('base64')                                       *)
(***************************************************************************)
B64Alphabet == "ABCDEFGHIJKLMNOPQRSTUVWXYZabcdefghijklmnopqrstuvwxyz0123456789+/"
B64Char(n) == CharAt(B64Alphabet, n + 1)

RECURSIVE Base64(_)
Base64(s) ==
  IF Len(s) = 0 THEN ""
  ELSE LET a == CharCode(CharAt(s, 1)) IN
    IF Len(s) = 1
    THEN B64Char(a \div 4) \o B64Char((a % 4) * 16) \o "=="
    ELSE LET b == CharCode(CharAt(s, 2)) IN
      IF Len(s) = 2
      THEN B64Char(a \div 4) \o B64Char(((a % 4) * 16) + (b \div 16))
             \o B64Char((b % 16) * 4) \o "="
      ELSE LET c == CharCode(CharAt(s, 3)) IN
        B64Char(a \div 4) \o B64Char(((a % 4) * 16) + (b \div 16))
          \o B64Char(((b % 16) * 4) + (c \div 64)) \o B64Char(c % 64)
          \o Base64(SubSeq(s, 4, Len(s)))

(***************************************************************************)
(* encodeURIComponent                                                      *)
(***************************************************************************)
Unreserved == "ABCDEFGHIJKLMNOPQRSTUVWXYZabcdefghijklmnopqrstuvwxyz0123456789-_.!~*'()"
HexDigits == "0123456789ABCDEF"
HexByte(n) == CharAt(HexDigits, (n \div 16) + 1) \o CharAt(HexDigits, (n % 16) + 1)

RECURSIVE encodeURIComponent(_)
encodeURIComponent(s) ==
  IF Len(s) = 0 THEN ""
  ELSE LET c == CharAt(s, 1) IN
    (IF \E i \in 1..Len(Unreserved) : CharAt(Unreserved, i) = c
     THEN c
     ELSE "%" \o HexByte(CharCode(c)))
    \o encodeURIComponent(SubSeq(s, 2, Len(s)))

(***************************************************************************)
(* Results of a call: a value returned, an error thrown, or (for the async *)
(* resolver) a request handed to fetch whose response is awaited.          *)
(***************************************************************************)
Returned(v) == [kind |-> "return", value |-> v]
Thrown(msg) == [kind |-> "throw", message |-> msg]
Awaiting(req) == [kind |-> "await", request |-> req]

(***************************************************************************)
(* parseDuration                                                           *)
(***************************************************************************)
UpperLetters == "ABCDEFGHIJKLMNOPQRSTUVWXYZ"
LowerLetters == "abcdefghijklmnopqrstuvwxyz"

RECURSIVE toLowerCase(_)
toLowerCase(s) ==
  IF Len(s) = 0 THEN ""
  ELSE LET c == CharAt(s, 1) IN
    (IF \E i \in 1..Len(UpperLetters) : CharAt(UpperLetters, i) = c
     THEN CharAt(LowerLetters, IndexIn(UpperLetters, c))
     ELSE c)
    \o toLowerCase(SubSeq(s, 2, Len(s)))

\* (\d+(?:\.\d+)?)
IsDecimal(s) ==
  \/ IsDigits(s)
  \/ \E k \in 2..(Len(s) - 1) :
       /\ CharAt(s, k) = "."
       /\ IsDigits(SubSeq(s, 1, k - 1))
       /\ IsDigits(SubSeq(s, k + 1, Len(s)))

\* parseFloat of a string that IsDecimal, in 1/FracScale units
parseFloat(s) ==
  IF IsDigits(s) THEN DecVal(s) * FracScale
  ELSE LET k == CHOOSE k \in 2..(Len(s) - 1) : CharAt(s, k) = "."
           frac == SubSeq(s, k + 1, Len(s))
       IN DecVal(SubSeq(s, 1, k - 1)) * FracScale
            + ((DecVal(frac) * FracScale) \div Pow10(Len(frac)))

\* the splits <<number, unit>> of s that /^(\d+(?:\.\d+)?)(ms|s|m|h)?$/i accepts
DurationMatches(s) ==
  { m \in { <<SubSeq(s, 1, k), SubSeq(s, k + 1, Len(s))>> : k \in 0..Len(s) } :
      /\ IsDecimal(m[1])
      /\ toLowerCase(m[2]) \in {"", "ms", "s", "m", "h"} }

\* mutant: the unit is compared as written, without toLowerCase
parseDurationCaseSensitive(durationStr) ==
  IF ~Truthy(durationStr) THEN 100 * FracScale
  ELSE IF DurationMatches(durationStr.s) = {} THEN 100 * FracScale
  ELSE LET match == CHOOSE m \in DurationMatches(durationStr.s) : TRUE
           value == parseFloat(match[1])
           unit == IF match[2] = "" THEN "ms" ELSE match[2]
       IN CASE unit = "ms" -> value
            [] unit = "s" -> value * 1000
            [] unit = "m" -> value * 60 * 1000
            [] unit = "h" -> value * 60 * 60 * 1000
            [] OTHER -> value

parseDuration(durationStr) ==
  IF ~Truthy(durationStr) THEN 100 * FracScale
  ELSE IF DurationMatches(durationStr.s) = {} THEN 100 * FracScale
  ELSE LET match == CHOOSE m \in DurationMatches(durationStr.s) : TRUE
           value == parseFloat(match[1])
           unit == toLowerCase(IF match[2] = "" THEN "ms" ELSE match[2])
       IN CASE unit = "ms" -> value
            [] unit = "s" -> value * 1000
            [] unit = "m" -> value * 60 * 1000
            [] unit = "h" -> value * 60 * 60 * 1000
            [] OTHER -> value

(***************************************************************************)
(* getBaseUrl                                                              *)
(***************************************************************************)
\* mutant: the environment's ADDRESS is preferred to the address parameter
getBaseUrlEnvFirst(p, ctx) ==
  LET address == Or(ctx.environment.ADDRESS, p.address) IN
  IF ~Truthy(address)
  THEN Thrown("No URL specified. Provide address parameter or ADDRESS environment variable")
  ELSE Returned(IF EndsWith(address.s, "/")
                THEN SubSeq(address.s, 1, Len(address.s) - 1)
                ELSE address.s)

getBaseUrl(p, ctx) ==
  LET address == Or(p.address, ctx.environment.ADDRESS) IN
  IF ~Truthy(address)
  THEN Thrown("No URL specified. Provide address parameter or ADDRESS environment variable")
  ELSE Returned(IF EndsWith(address.s, "/")
                THEN SubSeq(address.s, 1, Len(address.s) - 1)
                ELSE address.s)

(***************************************************************************)
(* getClientCredentialsToken: the request it builds, and what it makes of  *)
(* the response.                                                           *)
(***************************************************************************)
\* the entries appended to the URLSearchParams, in order
TokenFormParams(config) ==
  <<<<"grant_type", "client_credentials">>>>
    \o (IF Truthy(config.scope) THEN <<<<"scope", config.scope.s>>>> ELSE <<>>)
    \o (IF Truthy(config.audience) THEN <<<<"audience", config.audience.s>>>> ELSE <<>>)
    \o (IF config.authStyle = Str("InParams")
        THEN <<<<"client_id", config.clientId.s>>, <<"client_secret", config.clientSecret.s>>>>
        ELSE <<>>)

TokenRequest(config) ==
  [api |-> "token",
   method |-> "POST",
   url |-> config.tokenUrl.s,
   headers |->
     [ContentType |-> Str("application/x-www-form-urlencoded"),
      Accept |-> Str("application/json"),
      Authorization |->
        IF config.authStyle = Str("InParams") THEN Undef
        ELSE Str("Basic " \o Base64(config.clientId.s \o ":" \o config.clientSecret.s))],
   body |-> TokenFormParams(config)]

getClientCredentialsToken(config) ==
  IF ~Truthy(config.tokenUrl) \/ ~Truthy(config.clientId) \/ ~Truthy(config.clientSecret)
  THEN Thrown("OAuth2 Client Credentials flow requires tokenUrl, clientId, and clientSecret")
  ELSE Awaiting(TokenRequest(config))

\* Response.ok of the fetch standard
HttpOk(status) == status >= 200 /\ status <= 299

\* A response is [net, status, statusText, json, text]: net = FALSE is a fetch
\* that rejects (message in text); json is the value response.json() resolves
\* to, or Invalid when it rejects; jsonText is JSON.stringify of that value;
\* text is what response.text() resolves to after a failed json(), or
\* Unusable when it rejects because the body was already consumed.
Invalid == [t |-> "invalid"]
Unusable == [t |-> "unusable"]
JsonSyntaxError == "Unexpected token < in JSON at position 0"
BodyUsedError == "Body is unusable: Body has already been read"
NullReadError(field) == "Cannot read properties of null (reading '" \o field \o "')"

TokenResult(response) ==
  IF ~response.net THEN Thrown(response.text.s)
  ELSE IF ~HttpOk(response.status)
  THEN IF response.json # Invalid
       THEN Thrown("OAuth2 token request failed: " \o ToString(response.status) \o " "
                     \o response.statusText \o " - " \o response.jsonText)
       ELSE IF response.text = Unusable THEN Thrown(BodyUsedError)
       ELSE Thrown("OAuth2 token request failed: " \o ToString(response.status) \o " "
                     \o response.statusText \o " - " \o response.text.s)
  ELSE IF response.json = Invalid THEN Thrown(JsonSyntaxError)
  ELSE IF response.json = Null THEN Thrown(NullReadError("access_token"))
  ELSE IF ~Truthy(response.json.access_token) THEN Thrown("No access_token in OAuth2 response")
  ELSE Returned(response.json.access_token)

(***************************************************************************)
(* getAuthorizationHeader, up to its first await.                          *)
(***************************************************************************)
BearerPrefixed(token) ==
  IF StartsWith(token, "Bearer ") THEN token ELSE "Bearer " \o token

NoAuthMessage ==
  "No authentication configured. Provide one of: "
    \o "BEARER_AUTH_TOKEN, BASIC_USERNAME/BASIC_PASSWORD, "
    \o "OAUTH2_AUTHORIZATION_CODE_ACCESS_TOKEN, or OAUTH2_CLIENT_CREDENTIALS_*"

\* mutant: Basic is tried before Bearer
getAuthorizationHeaderBasicFirst(ctx) ==
  LET env == ctx.environment
      secrets == ctx.secrets
  IN
  IF Truthy(secrets.BASIC_PASSWORD) /\ Truthy(secrets.BASIC_USERNAME)
  THEN Returned("Basic " \o Base64(secrets.BASIC_USERNAME.s \o ":" \o secrets.BASIC_PASSWORD.s))
  ELSE IF Truthy(secrets.BEARER_AUTH_TOKEN)
  THEN Returned(BearerPrefixed(secrets.BEARER_AUTH_TOKEN.s))
  ELSE IF Truthy(secrets.OAUTH2_AUTHORIZATION_CODE_ACCESS_TOKEN)
  THEN Returned(BearerPrefixed(secrets.OAUTH2_AUTHORIZATION_CODE_ACCESS_TOKEN.s))
  ELSE IF Truthy(secrets.OAUTH2_CLIENT_CREDENTIALS_CLIENT_SECRET)
  THEN IF ~Truthy(env.OAUTH2_CLIENT_CREDENTIALS_TOKEN_URL)
            \/ ~Truthy(env.OAUTH2_CLIENT_CREDENTIALS_CLIENT_ID)
       THEN Thrown("OAuth2 Client Credentials flow requires TOKEN_URL and CLIENT_ID in env")
       ELSE getClientCredentialsToken(
              [tokenUrl |-> env.OAUTH2_CLIENT_CREDENTIALS_TOKEN_URL,
               clientId |-> env.OAUTH2_CLIENT_CREDENTIALS_CLIENT_ID,
               clientSecret |-> secrets.OAUTH2_CLIENT_CREDENTIALS_CLIENT_SECRET,
               scope |-> env.OAUTH2_CLIENT_CREDENTIALS_SCOPE,
               audience |-> env.OAUTH2_CLIENT_CREDENTIALS_AUDIENCE,
               authStyle |-> env.OAUTH2_CLIENT_CREDENTIALS_AUTH_STYLE])
  ELSE Thrown(NoAuthMessage)

\* mutant: without any credential the Bearer header is built from the
\* missing token instead of failing
getAuthorizationHeaderNoCheck(ctx) ==
  LET env == ctx.environment
      secrets == ctx.secrets
  IN
  IF Truthy(secrets.BASIC_PASSWORD) /\ Truthy(secrets.BASIC_USERNAME)
       /\ ~Truthy(secrets.BEARER_AUTH_TOKEN)
  THEN Returned("Basic " \o Base64(secrets.BASIC_USERNAME.s \o ":" \o secrets.BASIC_PASSWORD.s))
  ELSE IF Truthy(secrets.OAUTH2_AUTHORIZATION_CODE_ACCESS_TOKEN)
            /\ ~Truthy(secrets.BEARER_AUTH_TOKEN)
  THEN Returned(BearerPrefixed(secrets.OAUTH2_AUTHORIZATION_CODE_ACCESS_TOKEN.s))
  ELSE IF Truthy(secrets.OAUTH2_CLIENT_CREDENTIALS_CLIENT_SECRET)
            /\ ~Truthy(secrets.BEARER_AUTH_TOKEN)
  THEN IF ~Truthy(env.OAUTH2_CLIENT_CREDENTIALS_TOKEN_URL)
            \/ ~Truthy(env.OAUTH2_CLIENT_CREDENTIALS_CLIENT_ID)
       THEN Thrown("OAuth2 Client Credentials flow requires TOKEN_URL and CLIENT_ID in env")
       ELSE getClientCredentialsToken(
              [tokenUrl |-> env.OAUTH2_CLIENT_CREDENTIALS_TOKEN_URL,
               clientId |-> env.OAUTH2_CLIENT_CREDENTIALS_CLIENT_ID,
               clientSecret |-> secrets.OAUTH2_CLIENT_CREDENTIALS_CLIENT_SECRET,
               scope |-> env.OAUTH2_CLIENT_CREDENTIALS_SCOPE,
               audience |-> env.OAUTH2_CLIENT_CREDENTIALS_AUDIENCE,
               authStyle |-> env.OAUTH2_CLIENT_CREDENTIALS_AUTH_STYLE])
  ELSE Returned(BearerPrefixed(ToStr(secrets.BEARER_AUTH_TOKEN)))

\* mutant: the client-credentials method asks for a token whatever the
\* environment holds
getAuthorizationHeaderNoEnvCheck(ctx) ==
  LET env == ctx.environment
      secrets == ctx.secrets
  IN
  IF Truthy(secrets.BEARER_AUTH_TOKEN)
  THEN Returned(BearerPrefixed(secrets.BEARER_AUTH_TOKEN.s))
  ELSE IF Truthy(secrets.BASIC_PASSWORD) /\ Truthy(secrets.BASIC_USERNAME)
  THEN Returned("Basic " \o Base64(secrets.BASIC_USERNAME.s \o ":" \o secrets.BASIC_PASSWORD.s))
  ELSE IF Truthy(secrets.OAUTH2_AUTHORIZATION_CODE_ACCESS_TOKEN)
  THEN Returned(BearerPrefixed(secrets.OAUTH2_AUTHORIZATION_CODE_ACCESS_TOKEN.s))
  ELSE IF Truthy(secrets.OAUTH2_CLIENT_CREDENTIALS_CLIENT_SECRET)
  THEN Awaiting(TokenRequest(
         [tokenUrl |-> Str(ToStr(env.OAUTH2_CLIENT_CREDENTIALS_TOKEN_URL)),
          clientId |-> Str(ToStr(env.OAUTH2_CLIENT_CREDENTIALS_CLIENT_ID)),
          clientSecret |-> secrets.OAUTH2_CLIENT_CREDENTIALS_CLIENT_SECRET,
          scope |-> env.OAUTH2_CLIENT_CREDENTIALS_SCOPE,
          audience |-> env.OAUTH2_CLIENT_CREDENTIALS_AUDIENCE,
          authStyle |-> env.OAUTH2_CLIENT_CREDENTIALS_AUTH_STYLE]))
  ELSE Thrown(NoAuthMessage)

getAuthorizationHeader(ctx) ==
  LET env == ctx.environment
      secrets == ctx.secrets
  IN
  IF Truthy(secrets.BEARER_AUTH_TOKEN)
  THEN Returned(BearerPrefixed(secrets.BEARER_AUTH_TOKEN.s))
  ELSE IF Truthy(secrets.BASIC_PASSWORD) /\ Truthy(secrets.BASIC_USERNAME)
  THEN Returned("Basic " \o Base64(secrets.BASIC_USERNAME.s \o ":" \o secrets.BASIC_PASSWORD.s))
  ELSE IF Truthy(secrets.OAUTH2_AUTHORIZATION_CODE_ACCESS_TOKEN)
  THEN Returned(BearerPrefixed(secrets.OAUTH2_AUTHORIZATION_CODE_ACCESS_TOKEN.s))
  ELSE IF Truthy(secrets.OAUTH2_CLIENT_CREDENTIALS_CLIENT_SECRET)
  THEN IF ~Truthy(env.OAUTH2_CLIENT_CREDENTIALS_TOKEN_URL)
            \/ ~Truthy(env.OAUTH2_CLIENT_CREDENTIALS_CLIENT_ID)
       THEN Thrown("OAuth2 Client Credentials flow requires TOKEN_URL and CLIENT_ID in env")
       ELSE getClientCredentialsToken(
              [tokenUrl |-> env.OAUTH2_CLIENT_CREDENTIALS_TOKEN_URL,
               clientId |-> env.OAUTH2_CLIENT_CREDENTIALS_CLIENT_ID,
               clientSecret |-> secrets.OAUTH2_CLIENT_CREDENTIALS_CLIENT_SECRET,
               scope |-> env.OAUTH2_CLIENT_CREDENTIALS_SCOPE,
               audience |-> env.OAUTH2_CLIENT_CREDENTIALS_AUDIENCE,
               authStyle |-> env.OAUTH2_CLIENT_CREDENTIALS_AUTH_STYLE])
  ELSE Thrown(NoAuthMessage)

\* the rest of getAuthorizationHeader, once the token response is in
AuthorizationFromToken(response) ==
  LET token == TokenResult(response) IN
  IF token.kind = "throw" THEN token
  ELSE Returned("Bearer " \o ToStr(token.value))

(***************************************************************************)
(* Slack client: the two request builders.                                 *)
(***************************************************************************)
\* new URL(path, base).toString() for a path that starts with "/": the
\* scheme and authority of base followed by path; throws when base is not
\* an absolute URL
HasScheme(base) == \E i \in 2..(Len(base) - 2) : SubSeq(base, i, i + 2) = "://"
UrlOrigin(base) ==
  LET i == CHOOSE i \in 2..(Len(base) - 2) :
             /\ SubSeq(base, i, i + 2) = "://"
             /\ \A j \in 2..(i - 1) : SubSeq(base, j, j + 2) # "://"
      slashes == { j \in (i + 3)..Len(base) : CharAt(base, j) = "/" }
  IN IF slashes = {} THEN base
     ELSE SubSeq(base, 1, (CHOOSE j \in slashes : \A k \in slashes : j <= k) - 1)
NewURL(path, base) ==
  IF HasScheme(base) THEN Returned(UrlOrigin(base) \o path) ELSE Thrown("Invalid URL")

lookupUserByEmail(email, base, auth) ==
  LET encodedEmail == encodeURIComponent(email)
      url == NewURL("/api/users.lookupByEmail?email=" \o encodedEmail, base)
  IN IF url.kind = "throw" THEN url
     ELSE Awaiting([api |-> "users.lookupByEmail",
                    method |-> "GET",
                    url |-> url.value,
                    headers |-> [Authorization |-> Str(auth),
                                 Accept |-> Str("application/json"),
                                 ContentType |-> Undef],
                    body |-> Undef])

\* JSON.stringify of a string: in quotes, with the quote, the backslash and
\* the newline escaped
RECURSIVE JsonEscape(_)
JsonEscape(s) ==
  IF Len(s) = 0 THEN ""
  ELSE LET c == CharAt(s, 1) IN
    (IF c = "\"" THEN "\\\""
     ELSE IF c = "\\" THEN "\\\\"
     ELSE IF c = "\n" THEN "\\n"
     ELSE c)
    \o JsonEscape(SubSeq(s, 2, Len(s)))
JsonString(s) == "\"" \o JsonEscape(s) \o "\""

\* mutant: the strings are written between quotes as they are
JSONstringifyUnescaped(obj) ==
  "{\"channel\":\"" \o obj.channel.s \o "\",\"text\":\"" \o obj.text \o "\"}"

\* JSON.stringify({channel: userId, text: text}) for a user id and a text
\* that are strings
JSONstringify(obj) ==
  "{\"channel\":" \o JsonString(obj.channel.s) \o ",\"text\":" \o JsonString(obj.text) \o "}"

\* mutant: the send prefixes the Authorization value once more
sendDirectMessageReprefixed(uid, text, base, auth) ==
  LET url == NewURL("/api/chat.postMessage", base)
  IN IF url.kind = "throw" THEN url
     ELSE Awaiting([api |-> "chat.postMessage",
                    method |-> "POST",
                    url |-> url.value,
                    headers |-> [Authorization |-> Str("Bearer " \o auth),
                                 Accept |-> Str("application/json"),
                                 ContentType |-> Str("application/json")],
                    body |-> JSONstringify([channel |-> uid, text |-> text])])

sendDirectMessage(uid, text, base, auth) ==
  LET url == NewURL("/api/chat.postMessage", base)
  IN IF url.kind = "throw" THEN url
     ELSE Awaiting([api |-> "chat.postMessage",
                    method |-> "POST",
                    url |-> url.value,
                    headers |-> [Authorization |-> Str(auth),
                                 Accept |-> Str("application/json"),
                                 ContentType |-> Str("application/json")],
                    body |-> JSONstringify([channel |-> uid, text |-> text])])

\* script.mjs: createAuthHeaders of @sgnl-actions/utils resolves the
\* Authorization value and returns one headers object; library is what the
\* package puts beside Authorization
createAuthHeaders(library, auth) ==
  [Authorization |-> Str(auth),
   Accept |-> library.Accept,
   ContentType |-> library.ContentType]

\* script.mjs: the URL is a template string and the headers object is passed on
lookupUserByEmail_mjs(email, base, headers) ==
  LET encodedEmail == encodeURIComponent(email)
      url == base \o "/api/users.lookupByEmail?email=" \o encodedEmail
  IN Awaiting([api |-> "users.lookupByEmail",
               method |-> "GET",
               url |-> url,
               headers |-> headers,
               body |-> Undef])

sendDirectMessage_mjs(uid, text, base, headers) ==
  LET url == base \o "/api/chat.postMessage"
  IN Awaiting([api |-> "chat.postMessage",
               method |-> "POST",
               url |-> url,
               headers |-> headers,
               body |-> JSONstringify([channel |-> uid, text |-> text])])

\* the two builds of the action: the bundle with the package inlined, and
\* script.mjs with the package as installed
Bundle == [variant |-> "bundle", library |-> [Accept |-> Undef, ContentType |-> Undef]]
LibraryHeaders ==
  { [Accept |-> a, ContentType |-> c] :
      a \in {Undef, Str("application/json")}, c \in {Undef, Str("application/json")} }
SourceBuilds == { [variant |-> "source", library |-> h] : h \in LibraryHeaders }

LookupRequest(b, email, base, auth) ==
  IF b.variant = "bundle" THEN lookupUserByEmail(email, base, auth)
  ELSE lookupUserByEmail_mjs(email, base, createAuthHeaders(b.library, auth))
SendRequest(b, uid, text, base, auth) ==
  IF b.variant = "bundle" THEN sendDirectMessage(uid, text, base, auth)
  ELSE sendDirectMessage_mjs(uid, text, base, createAuthHeaders(b.library, auth))

(***************************************************************************)
(* invoke: what it makes of the lookup response and of the send response.  *)
(***************************************************************************)
\* lookupData.user?.id
UserIdOf(data) ==
  IF data.user.t = "object" THEN data.user.id ELSE Undef

\* mutant: the lookup body is refused only when its ok is the boolean false
LookupResultOnlyFalse(userEmail, response) ==
  IF ~response.net THEN Thrown(response.text.s)
  ELSE IF ~HttpOk(response.status)
  THEN LET errorData == IF response.json = Invalid THEN [t |-> "object", error |-> Undef]
                        ELSE response.json
       IN IF response.status = 404
          THEN Thrown("User not found with email: " \o userEmail)
          ELSE IF errorData = Null THEN Thrown(NullReadError("error"))
          ELSE IF errorData.error = Str("users_not_found")
          THEN Thrown("User not found with email: " \o userEmail)
          ELSE Thrown("Failed to lookup user " \o userEmail \o ": "
                        \o ToString(response.status) \o " " \o response.statusText)
  ELSE IF response.json = Invalid THEN Thrown(JsonSyntaxError)
  ELSE IF response.json = Null THEN Thrown(NullReadError("ok"))
  ELSE IF response.json.ok = Bool(FALSE)
  THEN Thrown("Slack API error during user lookup: "
                \o ToStr(Or(response.json.error, Str("Unknown error"))))
  ELSE IF ~Truthy(UserIdOf(response.json))
  THEN Thrown("No user ID found in response for email: " \o userEmail)
  ELSE Returned(UserIdOf(response.json))

LookupResult(userEmail, response) ==
  IF ~response.net THEN Thrown(response.text.s)
  ELSE IF ~HttpOk(response.status)
  THEN LET errorData == IF response.json = Invalid THEN [t |-> "object", error |-> Undef]
                        ELSE response.json
       IN IF response.status = 404
          THEN Thrown("User not found with email: " \o userEmail)
          ELSE IF errorData = Null THEN Thrown(NullReadError("error"))
          ELSE IF errorData.error = Str("users_not_found")
          THEN Thrown("User not found with email: " \o userEmail)
          ELSE Thrown("Failed to lookup user " \o userEmail \o ": "
                        \o ToString(response.status) \o " " \o response.statusText)
  ELSE IF response.json = Invalid THEN Thrown(JsonSyntaxError)
  ELSE IF response.json = Null THEN Thrown(NullReadError("ok"))
  ELSE IF ~Truthy(response.json.ok)
  THEN Thrown("Slack API error during user lookup: "
                \o ToStr(Or(response.json.error, Str("Unknown error"))))
  ELSE IF ~Truthy(UserIdOf(response.json))
  THEN Thrown("No user ID found in response for email: " \o userEmail)
  ELSE Returned(UserIdOf(response.json))

\* mutant: a send response that is not HTTP ok is read like any other
SendResultIgnoresStatus(response) ==
  IF ~response.net THEN Thrown(response.text.s)
  ELSE IF response.json = Invalid THEN Thrown(JsonSyntaxError)
  ELSE IF response.json = Null THEN Thrown(NullReadError("ok"))
  ELSE IF ~Truthy(response.json.ok)
  THEN Thrown("Slack API error during message send: "
                \o ToStr(Or(response.json.error, Str("Unknown error"))))
  ELSE Returned(response.json)

\* mutant: the ok field of the send body is not looked at
SendResultNoOkCheck(response) ==
  IF ~response.net THEN Thrown(response.text.s)
  ELSE IF ~HttpOk(response.status)
  THEN Thrown("Failed to send message: " \o ToString(response.status) \o " "
                \o response.statusText)
  ELSE IF response.json = Invalid THEN Thrown(JsonSyntaxError)
  ELSE IF response.json = Null THEN Thrown(NullReadError("ok"))
  ELSE Returned(response.json)

SendResult(response) ==
  IF ~response.net THEN Thrown(response.text.s)
  ELSE IF ~HttpOk(response.status)
  THEN Thrown("Failed to send message: " \o ToString(response.status) \o " "
                \o response.statusText)
  ELSE IF response.json = Invalid THEN Thrown(JsonSyntaxError)
  ELSE IF response.json = Null THEN Thrown(NullReadError("ok"))
  ELSE IF ~Truthy(response.json.ok)
  THEN Thrown("Slack API error during message send: "
                \o ToStr(Or(response.json.error, Str("Unknown error"))))
  ELSE Returned(response.json)

\* mutant: ok is reported as true instead of being copied
ActionResultOkTrue(userEmail, uid, text, messageData) ==
  [status |-> "success",
   userEmail |-> userEmail,
   userId |-> uid,
   text |-> text,
   ts |-> messageData.ts,
   ok |-> Bool(TRUE)]

\* the Action Result of a full success
ActionResult(userEmail, uid, text, messageData) ==
  [status |-> "success",
   userEmail |-> userEmail,
   userId |-> uid,
   text |-> text,
   ts |-> messageData.ts,
   ok |-> messageData.ok]

(***************************************************************************)
(* error and halt handlers.                                                *)
(***************************************************************************)
\* an Error object: identity (who created it) and message
ErrorObj(id, msg) == [id |-> id, message |-> msg]

\* what a handler call ends in
Resolved(v) == [kind |-> "return", value |-> v]
Rejected(e) == [kind |-> "throw", error |-> e]

\* mutant: the handler classifies by message, retryable patterns first
errorClassifying(p) ==
  IF Includes(p.error.message, "429") \/ Includes(p.error.message, "502")
       \/ Includes(p.error.message, "503") \/ Includes(p.error.message, "504")
  THEN Resolved([status |-> "retry_requested"])
  ELSE IF Includes(p.error.message, "401") \/ Includes(p.error.message, "403")
            \/ Includes(p.error.message, "User not found")
  THEN Rejected(p.error)
  ELSE Resolved([status |-> "retry_requested"])

\* mutant: every error is answered with a retry
errorAlwaysRetry(p) == Resolved([status |-> "retry_requested"])

error(p) == Rejected(p.error)

\* new Date().toISOString() at clock value t (1/FracScale ms since the start
\* of the run): the epoch millisecond count, kept symbolic as a string
toISOString(t) == "T+" \o ToString(t \div FracScale) \o "ms"

\* mutant: the userEmail is echoed without the "unknown" fallback
haltNoFallback(p, t) ==
  Resolved([status |-> "halted",
            userEmail |-> p.userEmail,
            reason |-> p.reason,
            halted_at |-> toISOString(t)])

halt(p, t) ==
  Resolved([status |-> "halted",
            userEmail |-> Or(p.userEmail, Str("unknown")),
            reason |-> p.reason,
            halted_at |-> toISOString(t)])

(***************************************************************************)
(* Inputs: job parameters, execution contexts and the responses of the     *)
(* HTTP transport.                                                         *)
(***************************************************************************)
Emails == {"a@x.io", "u429@x.io"}
Texts == {"say \"hi\"\n"}
DelayInputs == {Undef, Str("1s"), Str("bogus")}
AddressInputs == {Undef, Str("https://proxy.io/"), Str("https://proxy.io//")}
EnvAddresses == {Undef, Str("https://slack.com")}

ParamsSet ==
  { [userEmail |-> e, text |-> x, delay |-> d, address |-> a] :
      e \in Emails, x \in Texts, d \in DelayInputs, a \in AddressInputs }
DefaultParams ==
  [userEmail |-> "a@x.io", text |-> "hi", delay |-> Undef, address |-> Undef]

Secrets(bearer, user, pass, code, secret) ==
  [BEARER_AUTH_TOKEN |-> bearer,
   BASIC_USERNAME |-> user,
   BASIC_PASSWORD |-> pass,
   OAUTH2_AUTHORIZATION_CODE_ACCESS_TOKEN |-> code,
   OAUTH2_CLIENT_CREDENTIALS_CLIENT_SECRET |-> secret]

Environment(address, tokenUrl, clientId, authStyle) ==
  [ADDRESS |-> address,
   OAUTH2_CLIENT_CREDENTIALS_TOKEN_URL |-> tokenUrl,
   OAUTH2_CLIENT_CREDENTIALS_CLIENT_ID |-> clientId,
   OAUTH2_CLIENT_CREDENTIALS_SCOPE |-> Str("chat:write"),
   OAUTH2_CLIENT_CREDENTIALS_AUDIENCE |-> Undef,
   OAUTH2_CLIENT_CREDENTIALS_AUTH_STYLE |-> authStyle]

\* one configuration per authentication method, and none at all
MainSecrets ==
  { Secrets(Undef, Undef, Undef, Undef, Undef),
    Secrets(Str("xoxb-1"), Undef, Undef, Undef, Undef),
    Secrets(Str("Bearer xoxb-1"), Undef, Undef, Undef, Undef),
    Secrets(Undef, Str("bot"), Str("pw"), Undef, Undef),
    Secrets(Undef, Undef, Undef, Str("at-2"), Undef),
    Secrets(Undef, Undef, Undef, Undef, Str("cs")) }

MainContexts ==
  { [environment |-> Environment(a, u, Str("cid"), Undef), secrets |-> sec] :
      a \in EnvAddresses, u \in {Undef, Str("https://id.io/token")}, sec \in MainSecrets }
  \cup
  \* the client-credentials method without its CLIENT_ID
  { [environment |-> Environment(a, u, Undef, Undef),
     secrets |-> Secrets(Undef, Undef, Undef, Undef, Str("cs"))] :
      a \in EnvAddresses, u \in {Undef, Str("https://id.io/token")} }

\* every combination of absent, empty and set secrets
SecretValues == {Undef, Str(""), Str("tok")}
AllSecrets ==
  { Secrets(b, u, pw, c, cs) :
      b \in SecretValues \cup {Str("Bearer tok")}, u \in SecretValues,
      pw \in SecretValues, c \in SecretValues, cs \in SecretValues }
AuthContexts ==
  { [environment |-> Environment(Str("https://slack.com"), u, Str("cid"), st),
     secrets |-> sec] :
      u \in {Undef, Str("https://id.io/token")}, st \in {Undef},
      sec \in AllSecrets }
DefaultContext ==
  [environment |-> Environment(Str("https://slack.com"), Undef, Undef, Undef),
   secrets |-> Secrets(Str("xoxb-1"), Undef, Undef, Undef, Undef)]

StatusText(status) ==
  CASE status = 200 -> "OK"
    [] status = 401 -> "Unauthorized"
    [] status = 403 -> "Forbidden"
    [] status = 404 -> "Not Found"
    [] status = 429 -> "Too Many Requests"
    [] status = 500 -> "Internal Server Error"
    [] status = 502 -> "Bad Gateway"
    [] status = 503 -> "Service Unavailable"
    [] status = 504 -> "Gateway Timeout"
    [] OTHER -> ""

Response(status, json) ==
  [net |-> TRUE, status |-> status, statusText |-> StatusText(status),
   json |-> json, jsonText |-> "", text |-> Unusable]
ErrorBody(status, json, jsonText, text) ==
  [net |-> TRUE, status |-> status, statusText |-> StatusText(status),
   json |-> json, jsonText |-> jsonText, text |-> text]
NetworkFailure(msg) ==
  [net |-> FALSE, status |-> 0, statusText |-> "",
   json |-> Invalid, jsonText |-> "", text |-> Str(msg)]

LookupBody(ok, err, user) == [t |-> "object", ok |-> ok, error |-> err, user |-> user]
SendBody(ok, err, ts) == [t |-> "object", ok |-> ok, error |-> err, ts |-> ts]
TokenBody(tok) == [t |-> "object", access_token |-> tok]

LookupResponses ==
  { Response(200, LookupBody(Bool(TRUE), Undef, UserObj(Str("U1")))),
    Response(200, LookupBody(Bool(TRUE), Undef, UserObj(Str("U2")))),
    Response(200, LookupBody(Num(1), Undef, UserObj(Str("U1")))),
    Response(200, LookupBody(Bool(TRUE), Undef, UserObj(Str("")))),
    Response(200, LookupBody(Bool(TRUE), Undef, Undef)),
    Response(200, LookupBody(Bool(FALSE), Str("users_not_found"), Undef)),
    Response(200, LookupBody(Bool(FALSE), Str("missing_scope"), Undef)),
    Response(200, LookupBody(Bool(FALSE), Undef, Undef)),
    Response(200, LookupBody(Undef, Undef, Undef)),
    Response(200, LookupBody(Null, Str(""), Undef)),
    Response(200, Invalid),
    Response(200, Null),
    Response(404, LookupBody(Bool(FALSE), Str("users_not_found"), Undef)),
    Response(404, Invalid),
    Response(401, LookupBody(Bool(FALSE), Str("invalid_auth"), Undef)),
    Response(429, LookupBody(Bool(FALSE), Str("ratelimited"), Undef)),
    Response(500, LookupBody(Bool(FALSE), Str("users_not_found"), Undef)),
    Response(500, Null),
    Response(503, Invalid),
    NetworkFailure("fetch failed") }

SendResponses ==
  { Response(200, SendBody(Bool(TRUE), Undef, Str("1700000000.000100"))),
    Response(200, SendBody(Num(1), Undef, Undef)),
    Response(200, SendBody(Bool(FALSE), Str("channel_not_found"), Undef)),
    Response(200, SendBody(Bool(FALSE), Undef, Undef)),
    Response(200, Invalid),
    Response(403, SendBody(Bool(FALSE), Str("not_allowed"), Undef)),
    Response(429, SendBody(Bool(FALSE), Str("ratelimited"), Undef)),
    Response(502, Invalid),
    Response(504, Invalid),
    NetworkFailure("fetch failed") }

TokenResponses ==
  { Response(200, TokenBody(Str("tk-9"))),
    Response(200, TokenBody(Undef)),
    Response(200, Invalid),
    ErrorBody(401, TokenBody(Undef), "{\"error\":\"invalid_client\"}", Unusable),
    ErrorBody(500, Invalid, "", Str("upstream down")),
    ErrorBody(500, Invalid, "", Unusable),
    NetworkFailure("fetch failed") }

HaltReasons == {"timeout"}

\* delay parameters: every number of DurationNumbers followed by every unit
\* of DurationUnits, strings that the pattern refuses, and no delay at all.
\* The numbers are exact in binary floating point, so that the products
\* below are the numbers the action computes.
DurationNumbers == {"0", "1", "2", "05", "1.5", "0.25"}
DurationUnits == {"", "ms", "MS", "Ms", "s", "S", "m", "M", "h", "H"}
NonDurations ==
  {"", "bogus", "s", "1x", "1.s", ".5s", "1 s", " 1s", "-1s", "1e3", "1.5.2s",
   "1sm", "1hs", "1,5s", "1s\n"}
DurationInputs ==
  {Undef} \cup { Str(n \o u) : n \in DurationNumbers, u \in DurationUnits }
          \cup { Str(x) : x \in NonDurations }
DurationParams ==
  { [userEmail |-> "a@x.io", text |-> "hi", delay |-> d, address |-> Undef] :
      d \in DurationInputs }
DurationContexts ==
  { DefaultContext,
    [environment |-> Environment(Str("https://slack.com"), Str("https://id.io/token"),
                                 Str("cid"), Undef),
     secrets |-> Secrets(Undef, Undef, Undef, Undef, Str("cs"))] }

(***************************************************************************)
(* State.  Every variable is a function over the invocation slots; an      *)
(* invocation owns its slot and no handler reads another slot.             *)
(***************************************************************************)
VARIABLES
  active,          \* the slots the framework runs in this execution
  params,          \* job parameters of the invocation
  context,         \* execution context of the invocation
  build,           \* which build of the action runs: the bundle or script.mjs
  pc,              \* where invoke stands: ready, token, lookup, delay, send, done
  baseUrl,         \* invoke's local baseUrl
  authHeader,      \* invoke's local authHeader
  delayMs,         \* invoke's local delayMs
  tokenResponse,   \* response to the token request
  lookupResponse,  \* invoke's local lookupResponse
  userId,          \* invoke's local userId
  messageResponse, \* invoke's local messageResponse
  requests,        \* the requests the invocation handed to fetch, in order
  inflight,        \* the requests whose response is still awaited
  events,          \* what happened in the invocation, in order, with the time
  timer,           \* deadline of the pending setTimeout
  now,             \* the clock, in 1/FracScale ms
  outcome,         \* how invoke ended
  handlerOutcome,  \* how the error handler ended
  haltOutcome,     \* how the halt handler ended
  haltParams       \* the parameters the halt handler was called with

locals == <<baseUrl, authHeader, delayMs, tokenResponse, lookupResponse, userId,
            messageResponse>>
inputs == <<active, params, context, build>>
vars == <<active, params, context, build, pc, baseUrl, authHeader, delayMs, tokenResponse,
          lookupResponse, userId, messageResponse, requests, inflight, events,
          timer, now, outcome, handlerOutcome, haltOutcome, haltParams>>

Pending == [kind |-> "pending"]

Event(name, t) == [e |-> name, at |-> t]

InitWith(act, paramsSet, contextSet, buildSet) ==
  /\ active = act
  /\ \E p \in [act -> paramsSet] :
       params = [i \in Invocations |-> IF i \in act THEN p[i] ELSE DefaultParams]
  /\ \E c \in [act -> contextSet] :
       context = [i \in Invocations |-> IF i \in act THEN c[i] ELSE DefaultContext]
  /\ \E b \in [act -> buildSet] :
       build = [i \in Invocations |-> IF i \in act THEN b[i] ELSE Bundle]
  /\ pc = [i \in Invocations |-> "ready"]
  /\ baseUrl = [i \in Invocations |-> Undef]
  /\ authHeader = [i \in Invocations |-> Undef]
  /\ delayMs = [i \in Invocations |-> Undef]
  /\ tokenResponse = [i \in Invocations |-> Undef]
  /\ lookupResponse = [i \in Invocations |-> Undef]
  /\ userId = [i \in Invocations |-> Undef]
  /\ messageResponse = [i \in Invocations |-> Undef]
  /\ requests = [i \in Invocations |-> <<>>]
  /\ inflight = [i \in Invocations |-> {}]
  /\ events = [i \in Invocations |-> <<>>]
  /\ timer = [i \in Invocations |-> Undef]
  /\ now = 0
  /\ outcome = [i \in Invocations |-> Pending]
  /\ handlerOutcome = [i \in Invocations |-> Pending]
  /\ haltOutcome = [i \in Invocations |-> Pending]
  /\ haltParams = [i \in Invocations |-> Undef]

Init == InitWith({1}, ParamsSet, MainContexts, {Bundle})

(***************************************************************************)
(* invoke                                                                  *)
(***************************************************************************)
\* invoke rejects with a new Error carrying msg; nothing else happens
Throw(i, msg) ==
  /\ pc' = [pc EXCEPT ![i] = "done"]
  /\ outcome' = [outcome EXCEPT ![i] = Rejected(ErrorObj(<<i, "invoke">>, msg))]

\* hand request req to fetch and wait for its response at position next
Fetch(i, req, next) ==
  /\ requests' = [requests EXCEPT ![i] = Append(@, req)]
  /\ inflight' = [inflight EXCEPT ![i] = @ \cup {req.api}]
  /\ events' = [events EXCEPT ![i] = Append(@, Event("request:" \o req.api, now))]
  /\ pc' = [pc EXCEPT ![i] = next]
  /\ UNCHANGED outcome

\* the response to the awaited request api has arrived
Receive(i, api) ==
  /\ inflight' = [inflight EXCEPT ![i] = @ \ {api}]
  /\ events' = [events EXCEPT ![i] = Append(@, Event("response:" \o api, now))]

\* mutant: the Authorization value is kept in a cache shared by the
\* invocations, and an invocation that finds one there uses it
LookupStepCachedAuth(i, base, auth, evs, infl) ==
  LET cached == { j \in Invocations : authHeader[j] # Undef }
      shared == IF cached = {} THEN auth ELSE authHeader[CHOOSE j \in cached : TRUE].s
      req == LookupRequest(build[i], params[i].userEmail, base, shared) IN
  /\ authHeader' = [authHeader EXCEPT ![i] = Str(shared)]
  /\ delayMs' = [delayMs EXCEPT ![i] = Num(parseDuration(params[i].delay))]
  /\ IF req.kind = "throw"
     THEN /\ Throw(i, req.message)
          /\ requests' = requests
          /\ inflight' = [inflight EXCEPT ![i] = infl]
          /\ events' = [events EXCEPT ![i] = evs]
     ELSE /\ requests' = [requests EXCEPT ![i] = Append(@, req.request)]
          /\ inflight' = [inflight EXCEPT ![i] = infl \cup {req.request.api}]
          /\ events' = [events EXCEPT ![i] = Append(evs, Event("request:" \o req.request.api, now))]
          /\ pc' = [pc EXCEPT ![i] = "lookup"]
          /\ UNCHANGED outcome

\* invoke from the point where the Authorization value auth is known up to
\* the await of the lookup response: parse the delay, issue the lookup
LookupStep(i, base, auth, evs, infl) ==
  LET req == LookupRequest(build[i], params[i].userEmail, base, auth) IN
  /\ authHeader' = [authHeader EXCEPT ![i] = Str(auth)]
  /\ delayMs' = [delayMs EXCEPT ![i] = Num(parseDuration(params[i].delay))]
  /\ IF req.kind = "throw"
     THEN /\ Throw(i, req.message)
          /\ requests' = requests
          /\ inflight' = [inflight EXCEPT ![i] = infl]
          /\ events' = [events EXCEPT ![i] = evs]
     ELSE /\ requests' = [requests EXCEPT ![i] = Append(@, req.request)]
          /\ inflight' = [inflight EXCEPT ![i] = infl \cup {req.request.api}]
          /\ events' = [events EXCEPT ![i] = Append(evs, Event("request:" \o req.request.api, now))]
          /\ pc' = [pc EXCEPT ![i] = "lookup"]
          /\ UNCHANGED outcome

\* invoke from its call to its first await that does not resolve at once
Invoke(i) ==
  /\ i \in active
  /\ pc[i] = "ready"
  /\ LET base == getBaseUrl(params[i], context[i])
         auth == getAuthorizationHeader(context[i])
     IN IF base.kind = "throw"
        THEN /\ Throw(i, base.message)
             /\ UNCHANGED <<baseUrl, authHeader, delayMs, requests, inflight, events>>
        ELSE /\ baseUrl' = [baseUrl EXCEPT ![i] = Str(base.value)]
             /\ CASE auth.kind = "throw" ->
                       /\ Throw(i, auth.message)
                       /\ UNCHANGED <<authHeader, delayMs, requests, inflight, events>>
                  [] auth.kind = "await" ->
                       /\ Fetch(i, auth.request, "token")
                       /\ UNCHANGED <<authHeader, delayMs>>
                  [] OTHER ->
                       LookupStep(i, base.value, auth.value, events[i], inflight[i])
  /\ UNCHANGED <<inputs, tokenResponse, lookupResponse, userId, messageResponse,
                 timer, now, handlerOutcome, haltOutcome, haltParams>>

\* the token response arrives: the resolver finishes and invoke goes on
TokenResponse(i, r) ==
  /\ pc[i] = "token"
  /\ tokenResponse' = [tokenResponse EXCEPT ![i] = r]
  /\ LET auth == AuthorizationFromToken(r)
         evs == Append(events[i], Event("response:token", now))
         infl == inflight[i] \ {"token"}
     IN IF auth.kind = "throw"
        THEN /\ Throw(i, auth.message)
             /\ inflight' = [inflight EXCEPT ![i] = infl]
             /\ events' = [events EXCEPT ![i] = evs]
             /\ UNCHANGED <<authHeader, delayMs, requests>>
        ELSE LookupStep(i, baseUrl[i].s, auth.value, evs, infl)
  /\ UNCHANGED <<inputs, baseUrl, lookupResponse, userId, messageResponse,
                 timer, now, handlerOutcome, haltOutcome, haltParams>>

\* mutant: the delay is dropped, resolve runs at once
setTimeoutNoDelay(t, ms) == t

\* setTimeout(resolve, ms) called at time t: the time at which resolve runs
setTimeout(t, ms) == t + ms

\* the lookup response arrives: interpret it and start the delay
LookupResponse(i, r) ==
  /\ pc[i] = "lookup"
  /\ lookupResponse' = [lookupResponse EXCEPT ![i] = r]
  /\ LET res == LookupResult(params[i].userEmail, r) IN
     IF res.kind = "throw"
     THEN /\ Throw(i, res.message)
          /\ Receive(i, "users.lookupByEmail")
          /\ UNCHANGED <<userId, timer>>
     ELSE /\ userId' = [userId EXCEPT ![i] = res.value]
          /\ timer' = [timer EXCEPT ![i] = Num(setTimeout(now, delayMs[i].n))]
          /\ inflight' = [inflight EXCEPT ![i] = @ \ {"users.lookupByEmail"}]
          /\ events' = [events EXCEPT ![i] =
               @ \o <<Event("response:users.lookupByEmail", now),
                      Event("timer:start", now)>>]
          /\ pc' = [pc EXCEPT ![i] = "delay"]
          /\ UNCHANGED outcome
  /\ UNCHANGED <<inputs, baseUrl, authHeader, delayMs, tokenResponse, messageResponse,
                 requests, now, handlerOutcome, haltOutcome, haltParams>>

\* the delay is over: the earliest pending timer fires and invoke sends
TimerFire(i) ==
  /\ pc[i] = "delay"
  /\ \A j \in Invocations : timer[j] # Undef => timer[i].n <= timer[j].n
  /\ now' = IF timer[i].n > now THEN timer[i].n ELSE now
  /\ timer' = [timer EXCEPT ![i] = Undef]
  /\ LET req == SendRequest(build[i], userId[i], params[i].text, baseUrl[i].s, authHeader[i].s) IN
     IF req.kind = "throw"
     THEN /\ Throw(i, req.message)
          /\ events' = [events EXCEPT ![i] = Append(@, Event("timer:fire", now'))]
          /\ UNCHANGED <<requests, inflight>>
     ELSE /\ requests' = [requests EXCEPT ![i] = Append(@, req.request)]
          /\ inflight' = [inflight EXCEPT ![i] = @ \cup {req.request.api}]
          /\ events' = [events EXCEPT ![i] =
               @ \o <<Event("timer:fire", now'),
                      Event("request:" \o req.request.api, now')>>]
          /\ pc' = [pc EXCEPT ![i] = "send"]
          /\ UNCHANGED outcome
  /\ UNCHANGED <<inputs, locals, handlerOutcome, haltOutcome, haltParams>>

\* the send response arrives: interpret it and return the Action Result
SendResponse(i, r) ==
  /\ pc[i] = "send"
  /\ messageResponse' = [messageResponse EXCEPT ![i] = r]
  /\ Receive(i, "chat.postMessage")
  /\ LET res == SendResult(r) IN
     IF res.kind = "throw"
     THEN Throw(i, res.message)
     ELSE /\ pc' = [pc EXCEPT ![i] = "done"]
          /\ outcome' = [outcome EXCEPT ![i] =
               Resolved(ActionResult(params[i].userEmail, userId[i], params[i].text,
                                     res.value))]
  /\ UNCHANGED <<inputs, baseUrl, authHeader, delayMs, tokenResponse, lookupResponse,
                 userId, requests, timer, now, handlerOutcome, haltOutcome, haltParams>>

(***************************************************************************)
(* The framework hands a failed invocation to the error handler, and may   *)
(* call the halt handler.                                                  *)
(***************************************************************************)
ErrorHandler(i) ==
  /\ outcome[i].kind = "throw"
  /\ handlerOutcome[i] = Pending
  /\ handlerOutcome' = [handlerOutcome EXCEPT ![i] =
       error([userEmail |-> params[i].userEmail, error |-> outcome[i].error])]
  /\ UNCHANGED <<inputs, pc, locals, requests, inflight, events, timer, now,
                 outcome, haltOutcome, haltParams>>

Halt(i, reason, email) ==
  /\ i \in active
  /\ haltOutcome[i] = Pending
  /\ haltParams' = [haltParams EXCEPT ![i] = [reason |-> reason, userEmail |-> email]]
  /\ haltOutcome' = [haltOutcome EXCEPT ![i] = halt(haltParams'[i], now)]
  /\ UNCHANGED <<inputs, pc, locals, requests, inflight, events, timer, now,
                 outcome, handlerOutcome>>

Next ==
  \/ \E i \in Invocations : Invoke(i)
  \/ \E i \in Invocations, r \in TokenResponses : TokenResponse(i, r)
  \/ \E i \in Invocations, r \in LookupResponses : LookupResponse(i, r)
  \/ \E i \in Invocations : TimerFire(i)
  \/ \E i \in Invocations, r \in SendResponses : SendResponse(i, r)
  \/ \E i \in Invocations : ErrorHandler(i)
  \/ \E i \in Invocations, reason \in HaltReasons :
       \E e \in {Undef, Str(""), Str(params[i].userEmail)} : Halt(i, reason, e)

Spec == Init /\ [][Next]_vars

\* the same program run on every delay parameter
InitDuration == InitWith({1}, DurationParams, DurationContexts, {Bundle})
SpecDuration == InitDuration /\ [][Next]_vars

\* script.mjs run with each headers object the package may hand it
SourceParams ==
  { DefaultParams, [DefaultParams EXCEPT !.address = Str("https://proxy.io/")] }
InitSource == InitWith({1}, SourceParams, MainContexts, SourceBuilds)
SpecSource == InitSource /\ [][Next]_vars

\* every slot runs an invocation, and the framework interleaves their steps
\* in every order.  An invocation is one of two jobs, which differ in
\* recipient, text and authentication method; the transport answers each
\* invocation on its own.  The delay is zero, so that the timers put no
\* order on the steps of different invocations.
ConcurrentJobs ==
  { [params |-> [userEmail |-> "a@x.io", text |-> "hi", delay |-> Str("0"),
                 address |-> Undef],
     context |-> DefaultContext],
    [params |-> [userEmail |-> "u429@x.io", text |-> "yo", delay |-> Str("0"),
                 address |-> Undef],
     context |->
       [environment |-> Environment(Str("https://slack.com"), Str("https://id.io/token"),
                                    Str("cid"), Undef),
        secrets |-> Secrets(Undef, Undef, Undef, Undef, Str("cs"))]] }
ConcurrentTokenResponses ==
  { Response(200, TokenBody(Str("tk-9"))),
    Response(200, TokenBody(Str("tk-7"))),
    ErrorBody(401, TokenBody(Undef), "{\"error\":\"invalid_client\"}", Unusable) }
ConcurrentLookupResponses ==
  { Response(200, LookupBody(Bool(TRUE), Undef, UserObj(Str("U1")))),
    Response(200, LookupBody(Bool(TRUE), Undef, UserObj(Str("U2")))),
    Response(200, LookupBody(Bool(FALSE), Str("users_not_found"), Undef)) }
ConcurrentSendResponses ==
  { Response(200, SendBody(Bool(TRUE), Undef, Str("1700000000.000100"))),
    Response(200, SendBody(Bool(FALSE), Str("channel_not_found"), Undef)) }

InitConcurrent ==
  /\ InitWith(Invocations, { j.params : j \in ConcurrentJobs },
              { j.context : j \in ConcurrentJobs }, {Bundle})
  /\ \A i \in Invocations : [params |-> params[i], context |-> context[i]] \in ConcurrentJobs
NextConcurrent ==
  \/ \E i \in Invocations : Invoke(i)
  \/ \E i \in Invocations, r \in ConcurrentTokenResponses : TokenResponse(i, r)
  \/ \E i \in Invocations, r \in ConcurrentLookupResponses : LookupResponse(i, r)
  \/ \E i \in Invocations : TimerFire(i)
  \/ \E i \in Invocations, r \in ConcurrentSendResponses : SendResponse(i, r)
  \/ \E i \in Invocations : ErrorHandler(i)
SpecConcurrent == InitConcurrent /\ [][NextConcurrent]_vars

\* the same program run on every combination of secrets
InitAuth == InitWith({1}, {DefaultParams}, AuthContexts, {Bundle})
SpecAuth == InitAuth /\ [][Next]_vars

(***************************************************************************)
(* Vocabulary of the properties.                                           *)
(***************************************************************************)
Started(i) == i \in active /\ pc[i] # "ready"
Positions(i, name) == { k \in 1..Len(events[i]) : events[i][k].e = name }
RequestsTo(i, api) == { k \in 1..Len(requests[i]) : requests[i][k].api = api }
Raised(i, msg) == outcome[i].kind = "throw" /\ outcome[i].error.message = msg
\* the lookup response of invocation i is a success: HTTP ok, JSON ok, user.id
LookupSucceeded(i) ==
  /\ lookupResponse[i] # Undef
  /\ lookupResponse[i].net
  /\ HttpOk(lookupResponse[i].status)
  /\ lookupResponse[i].json.t = "object"
  /\ Truthy(lookupResponse[i].json.ok)
  /\ Truthy(UserIdOf(lookupResponse[i].json))
RetryRequested == Resolved([status |-> "retry_requested"])

(***************************************************************************)
(* C1: the send request is issued only after the lookup response has been  *)
(* received and read as a success and after a timer of                     *)
(* parseDuration(params.delay) has run from start to fire; the timer never *)
(* starts before the lookup response, and the lookup and the send are      *)
(* never in flight together.                                               *)
(***************************************************************************)
C1_SendAfterLookupAndDelay ==
  \A i \in Invocations :
    /\ \A k \in Positions(i, "request:chat.postMessage") :
         /\ LookupSucceeded(i)
         /\ \E a \in Positions(i, "response:users.lookupByEmail"),
               b \in Positions(i, "timer:start"),
               c \in Positions(i, "timer:fire") :
              /\ a < b /\ b < c /\ c < k
              /\ events[i][c].at - events[i][b].at >= parseDuration(params[i].delay)
              /\ events[i][k].at >= events[i][c].at
    /\ \A b \in Positions(i, "timer:start") :
         \E a \in Positions(i, "response:users.lookupByEmail") : a < b
    /\ ~({"users.lookupByEmail", "chat.postMessage"} \subseteq inflight[i])

C1_Witness ==
  \E i \in Invocations :
    /\ pc[i] = "send"
    /\ params[i].delay = Str("1s")
    /\ now = 1000 * FracScale

(***************************************************************************)
(* C2: a lookup response with status 404, or with a JSON body whose error  *)
(* is "users_not_found" (HTTP ok or not), makes invoke raise "User not     *)
(* found with email: {userEmail}" and no send request is issued.           *)
(***************************************************************************)
C2_UserNotFoundRaised ==
  \A i \in Invocations :
    ( /\ lookupResponse[i] # Undef
      /\ lookupResponse[i].net
      /\ \/ lookupResponse[i].status = 404
         \/ /\ lookupResponse[i].json.t = "object"
            /\ lookupResponse[i].json.error = Str("users_not_found") )
    => /\ Raised(i, "User not found with email: " \o params[i].userEmail)
       /\ RequestsTo(i, "chat.postMessage") = {}

(***************************************************************************)
(* C3: the resolver uses the first method, in the order Bearer, Basic,     *)
(* authorization-code, client-credentials, whose secrets are all set, and  *)
(* what it produces (header, token request or error) is what it produces   *)
(* when only that method's secrets are set.                                *)
(***************************************************************************)
Has(v) == Truthy(v)
ExpectedMethod(sec) ==
  IF Has(sec.BEARER_AUTH_TOKEN) THEN "bearer"
  ELSE IF Has(sec.BASIC_USERNAME) /\ Has(sec.BASIC_PASSWORD) THEN "basic"
  ELSE IF Has(sec.OAUTH2_AUTHORIZATION_CODE_ACCESS_TOKEN) THEN "code"
  ELSE IF Has(sec.OAUTH2_CLIENT_CREDENTIALS_CLIENT_SECRET) THEN "client"
  ELSE "none"
OnlyMethod(ctx, m) ==
  [ctx EXCEPT !.secrets =
     Secrets(IF m = "bearer" THEN @.BEARER_AUTH_TOKEN ELSE Undef,
             IF m = "basic" THEN @.BASIC_USERNAME ELSE Undef,
             IF m = "basic" THEN @.BASIC_PASSWORD ELSE Undef,
             IF m = "code" THEN @.OAUTH2_AUTHORIZATION_CODE_ACCESS_TOKEN ELSE Undef,
             IF m = "client" THEN @.OAUTH2_CLIENT_CREDENTIALS_CLIENT_SECRET ELSE Undef)]
SchemeOf(m) == IF m = "basic" THEN "Basic " ELSE "Bearer "

C3_FirstUsableMethodWins ==
  \A i \in Invocations :
    Started(i) =>
      LET m == ExpectedMethod(context[i].secrets)
          alone == getAuthorizationHeader(OnlyMethod(context[i], m))
      IN /\ (alone.kind = "throw" /\ alone.message = NoAuthMessage) <=> m = "none"
         /\ alone.kind = "return" =>
              /\ authHeader[i] = Str(alone.value)
              /\ StartsWith(alone.value, SchemeOf(m))
              /\ RequestsTo(i, "token") = {}
         /\ alone.kind = "throw" =>
              /\ Raised(i, alone.message)
              /\ requests[i] = <<>>
         /\ alone.kind = "await" =>
              /\ m = "client"
              /\ requests[i][1] = alone.request
              /\ authHeader[i] # Undef =>
                   authHeader[i] = Str("Bearer " \o tokenResponse[i].json.access_token.s)

C3_Witness ==
  \E i \in Invocations :
    /\ Started(i)
    /\ Has(context[i].secrets.BEARER_AUTH_TOKEN)
    /\ Has(context[i].secrets.BASIC_USERNAME)
    /\ Has(context[i].secrets.BASIC_PASSWORD)
    /\ Has(context[i].secrets.OAUTH2_CLIENT_CREDENTIALS_CLIENT_SECRET)
    /\ authHeader[i] = Str("Bearer tok")

(***************************************************************************)
(* C4: with none of the five secrets set and a base URL available, invoke  *)
(* rejects with the "No authentication configured" error and has issued    *)
(* no request at all.                                                      *)
(***************************************************************************)
NoCredential(sec) ==
  /\ ~Has(sec.BEARER_AUTH_TOKEN)
  /\ ~Has(sec.BASIC_USERNAME)
  /\ ~Has(sec.BASIC_PASSWORD)
  /\ ~Has(sec.OAUTH2_AUTHORIZATION_CODE_ACCESS_TOKEN)
  /\ ~Has(sec.OAUTH2_CLIENT_CREDENTIALS_CLIENT_SECRET)
BaseUrlAvailable(i) == Truthy(params[i].address) \/ Truthy(context[i].environment.ADDRESS)

C4_NoCredentialNoRequest ==
  \A i \in Invocations :
    (Started(i) /\ NoCredential(context[i].secrets) /\ BaseUrlAvailable(i))
    => /\ pc[i] = "done"
       /\ Raised(i, NoAuthMessage)
       /\ requests[i] = <<>>
       /\ inflight[i] = {}

C4_Witness ==
  \E i \in Invocations :
    /\ Started(i)
    /\ NoCredential(context[i].secrets)
    /\ BaseUrlAvailable(i)
    /\ handlerOutcome[i] # Pending

(***************************************************************************)
(* C5: handed an error whose message contains "429", "502", "503" or       *)
(* "504", the error handler returns {status: "retry_requested"} and does   *)
(* not re-raise.                                                           *)
(***************************************************************************)
IsRetryable(msg) ==
  Includes(msg, "429") \/ Includes(msg, "502") \/ Includes(msg, "503") \/ Includes(msg, "504")
IsFatal(msg) ==
  Includes(msg, "401") \/ Includes(msg, "403") \/ Includes(msg, "User not found")

C5_RetryableErrorsRetried ==
  \A i \in Invocations :
    (handlerOutcome[i] # Pending /\ IsRetryable(outcome[i].error.message))
    => handlerOutcome[i] = RetryRequested

(***************************************************************************)
(* C6: handed an error whose message contains "401", "403" or "User not    *)
(* found", the error handler rejects with that same error object and       *)
(* never returns {status: "retry_requested"}.                              *)
(***************************************************************************)
C6_FatalErrorsReraised ==
  \A i \in Invocations :
    (handlerOutcome[i] # Pending /\ IsFatal(outcome[i].error.message))
    => /\ handlerOutcome[i] = Rejected(outcome[i].error)
       /\ handlerOutcome[i] # RetryRequested

C6_Witness ==
  \E i \in Invocations :
    /\ handlerOutcome[i] # Pending
    /\ Includes(outcome[i].error.message, "User not found")
    /\ Includes(outcome[i].error.message, "429")

(***************************************************************************)
(* C7: handed an error whose message contains none of the seven patterns,  *)
(* the error handler returns {status: "retry_requested"}.                  *)
(***************************************************************************)
C7_UnknownErrorsRetried ==
  \A i \in Invocations :
    ( /\ handlerOutcome[i] # Pending
      /\ ~IsRetryable(outcome[i].error.message)
      /\ ~IsFatal(outcome[i].error.message) )
    => handlerOutcome[i] = RetryRequested

(***************************************************************************)
(* C8: a value returned by invoke is {status: "success", userEmail and     *)
(* text of the params, userId: the user.id of this invocation's lookup     *)
(* response, ts and ok: those of this invocation's send response body}.    *)
(***************************************************************************)
C8_ResultShape ==
  \A i \in Invocations :
    outcome[i].kind = "return" =>
      outcome[i].value =
        [status |-> "success",
         userEmail |-> params[i].userEmail,
         text |-> params[i].text,
         userId |-> lookupResponse[i].json.user.id,
         ts |-> messageResponse[i].json.ts,
         ok |-> messageResponse[i].json.ok]

C8_Witness ==
  \E i \in Invocations :
    /\ outcome[i].kind = "return"
    /\ outcome[i].value.userId = Str("U2")
    /\ outcome[i].value.ok = Num(1)
    /\ outcome[i].value.ts = Undef

(***************************************************************************)
(* C9: after a successful lookup, a send response that is not HTTP ok      *)
(* makes invoke raise "Failed to send message: {status} {statusText}", and *)
(* the invocation ends having issued one lookup and one send request.      *)
(***************************************************************************)
C9_SendFailureNoRetry ==
  \A i \in Invocations :
    ( /\ messageResponse[i] # Undef
      /\ messageResponse[i].net
      /\ ~HttpOk(messageResponse[i].status) )
    => /\ LookupSucceeded(i)
       /\ pc[i] = "done"
       /\ Raised(i, "Failed to send message: " \o ToString(messageResponse[i].status)
                      \o " " \o messageResponse[i].statusText)
       /\ Cardinality(RequestsTo(i, "users.lookupByEmail")) = 1
       /\ Cardinality(RequestsTo(i, "chat.postMessage")) = 1
       /\ inflight[i] = {}

C9_Witness ==
  \E i \in Invocations :
    /\ messageResponse[i] # Undef
    /\ messageResponse[i].status = 502
    /\ Raised(i, "Failed to send message: 502 Bad Gateway")
    /\ handlerOutcome[i] # Pending

(***************************************************************************)
(* C10 as stated: an HTTP-ok lookup response whose JSON ok is anything but *)
(* true makes invoke raise "Slack API error during user lookup: {error}"   *)
(* ("Unknown error" without an error field), and no send is issued.        *)
(***************************************************************************)
LookupApiError(i) ==
  "Slack API error during user lookup: "
    \o (IF lookupResponse[i].json.error.t = "string" /\ lookupResponse[i].json.error.s # ""
        THEN lookupResponse[i].json.error.s
        ELSE "Unknown error")
HttpOkLookupBody(i) ==
  /\ lookupResponse[i] # Undef
  /\ lookupResponse[i].net
  /\ HttpOk(lookupResponse[i].status)
  /\ lookupResponse[i].json.t = "object"

C10_NotTrueOkRaised ==
  \A i \in Invocations :
    (HttpOkLookupBody(i) /\ lookupResponse[i].json.ok # Bool(TRUE))
    => /\ Raised(i, LookupApiError(i))
       /\ RequestsTo(i, "chat.postMessage") = {}

(***************************************************************************)
(* C10 amended: an HTTP-ok lookup response whose JSON body is an object    *)
(* with a falsy ok (false, absent, null, 0, "") makes invoke raise "Slack  *)
(* API error during user lookup: {error}" ("Unknown error" when error is   *)
(* absent or empty), and no send is issued.                                *)
(***************************************************************************)
C10_FalsyOkRaised ==
  \A i \in Invocations :
    (HttpOkLookupBody(i) /\ ~Truthy(lookupResponse[i].json.ok))
    => /\ pc[i] = "done"
       /\ Raised(i, LookupApiError(i))
       /\ RequestsTo(i, "chat.postMessage") = {}

C10_Witness ==
  \E i \in Invocations :
    /\ HttpOkLookupBody(i)
    /\ lookupResponse[i].json.ok = Null
    /\ Raised(i, "Slack API error during user lookup: Unknown error")

(***************************************************************************)
(* C11: the base URL is params.address when supplied and otherwise         *)
(* environment.ADDRESS; the resolved value never ends with "/"; when       *)
(* neither is supplied invoke fails before the authorization is resolved   *)
(* and before any HTTP request.                                            *)
(***************************************************************************)
\* the address invoke is configured with: the parameter before the environment
ChosenAddress(i) ==
  IF Truthy(params[i].address) THEN params[i].address ELSE context[i].environment.ADDRESS
NoUrlMessage ==
  "No URL specified. Provide address parameter or ADDRESS environment variable"

DefaultSlackUrl == "https://slack.com"

\* C12 as stated: with no address the base URL is the default, invoke does
\* not raise for the missing address, and once the authorization is known
\* the lookup goes to the default host
C12_DefaultBaseUrl ==
  \A i \in Invocations :
    (Started(i) /\ ~BaseUrlAvailable(i))
    => /\ baseUrl[i] = Str(DefaultSlackUrl)
       /\ ~Raised(i, NoUrlMessage)
       /\ authHeader[i] # Undef =>
            \E k \in RequestsTo(i, "users.lookupByEmail") :
              StartsWith(requests[i][k].url,
                         DefaultSlackUrl \o "/api/users.lookupByEmail?email=")

(***************************************************************************)
(* C13: the halt handler returns {status: "halted", userEmail, reason,     *)
(* halted_at} with userEmail equal to params.userEmail when given and      *)
(* "unknown" otherwise, reason equal to params.reason and halted_at a      *)
(* non-empty timestamp; it issues no HTTP request and changes no state.    *)
(***************************************************************************)
Halted(i) == haltOutcome[i] # Pending

C13_Shape ==
  \A i \in Invocations :
    Halted(i) =>
      /\ haltOutcome[i].kind = "return"
      /\ haltOutcome[i].value.status = "halted"
      /\ haltOutcome[i].value.userEmail =
           (IF Truthy(haltParams[i].userEmail)
            THEN haltParams[i].userEmail ELSE Str("unknown"))
      /\ haltOutcome[i].value.reason = haltParams[i].reason
      /\ haltOutcome[i].value.halted_at # ""

\* a step in which a halt handler ends leaves the invocations, their
\* requests and the clock as they were
C13_Frame ==
  (haltOutcome' # haltOutcome) =>
    UNCHANGED <<inputs, pc, locals, requests, inflight, events, timer, now,
                outcome, handlerOutcome>>

\* C13: the result has the stated shape, and the handler touches nothing
C13_HaltResult == []C13_Shape /\ [][C13_Frame]_vars

\* halt was called without an email while the invocation awaited its lookup
\* response, and with an email
C13_Witness ==
  \E i \in Invocations :
    /\ Halted(i)
    /\ haltParams[i].userEmail = Undef
    /\ haltOutcome[i].value.userEmail = Str("unknown")
    /\ haltOutcome[i].value.reason = "timeout"
    /\ pc[i] = "lookup"
    /\ inflight[i] = {"users.lookupByEmail"}

(***************************************************************************)
(* C14: parseDuration returns value x multiplier for every string matching *)
(* ^(\d+(\.\d+)?)(ms|s|m|h)?$ with a case-insensitive unit (ms x1,         *)
(* s x1000, m x60000, h x3600000, no unit = ms), and the default 100 for   *)
(* empty, undefined or non-matching input; "1s" -> 1000, "2m" -> 120000,   *)
(* "1h" -> 3600000, "bogus" -> 100.                                       *)
(***************************************************************************)
\* the value of each number of DurationNumbers, in hundredths
NumberValue(n) ==
  CASE n = "0" -> 0
    [] n = "1" -> 100
    [] n = "2" -> 200
    [] n = "05" -> 500
    [] n = "1.5" -> 150
    [] n = "0.25" -> 25
\* the multiplier of each unit of DurationUnits
UnitMultiplier(u) ==
  CASE u \in {"", "ms", "MS", "Ms"} -> 1
    [] u \in {"s", "S"} -> 1000
    [] u \in {"m", "M"} -> 60000
    [] u \in {"h", "H"} -> 3600000
\* the milliseconds the claim gives for delay d, in hundredths
ExpectedDuration(d) ==
  IF d = Undef \/ d.s \in NonDurations THEN 10000
  ELSE LET nu == CHOOSE nu \in DurationNumbers \X DurationUnits : d.s = nu[1] \o nu[2]
       IN NumberValue(nu[1]) * UnitMultiplier(nu[2])

C14_ParseDuration ==
  /\ \A i \in Invocations :
       delayMs[i] # Undef => delayMs[i].n = ExpectedDuration(params[i].delay)
  /\ parseDuration(Str("1s")) = 1000 * FracScale
  /\ parseDuration(Str("2m")) = 120000 * FracScale
  /\ parseDuration(Str("1h")) = 3600000 * FracScale
  /\ parseDuration(Str("bogus")) = 100 * FracScale

\* a fractional number with an upper-case unit was parsed and waited for
C14_Witness ==
  \E i \in Invocations :
    /\ params[i].delay = Str("1.5H")
    /\ delayMs[i] = Num(540000000)
    /\ pc[i] = "send"
    /\ now = 540000000

(***************************************************************************)
(* C15: every users.lookupByEmail request is a GET carrying Authorization  *)
(* and Accept: application/json and no other header; every                 *)
(* chat.postMessage request is a POST carrying those two headers and       *)
(* Content-Type: application/json.                                         *)
(***************************************************************************)
JsonType == Str("application/json")

C15_RequestHeaders ==
  \A i \in Invocations :
    /\ \A k \in RequestsTo(i, "users.lookupByEmail") :
         /\ requests[i][k].method = "GET"
         /\ Truthy(requests[i][k].headers.Authorization)
         /\ requests[i][k].headers.Accept = JsonType
         /\ requests[i][k].headers.ContentType = Undef
    /\ \A k \in RequestsTo(i, "chat.postMessage") :
         /\ requests[i][k].method = "POST"
         /\ Truthy(requests[i][k].headers.Authorization)
         /\ requests[i][k].headers.Accept = JsonType
         /\ requests[i][k].headers.ContentType = JsonType

(***************************************************************************)
(* C16: when the client-credentials method is selected (its client secret  *)
(* present, no method of higher priority usable) and the environment lacks *)
(* the token URL or the client id, the resolver fails with a configuration *)
(* error, with no token request and no Slack request.                      *)
(***************************************************************************)
ClientCredentialsSelected(ctx) == ExpectedMethod(ctx.secrets) = "client"
ClientCredentialsEnvMissing(ctx) ==
  \/ ~Has(ctx.environment.OAUTH2_CLIENT_CREDENTIALS_TOKEN_URL)
  \/ ~Has(ctx.environment.OAUTH2_CLIENT_CREDENTIALS_CLIENT_ID)
ClientCredentialsEnvMessage ==
  "OAuth2 Client Credentials flow requires TOKEN_URL and CLIENT_ID in env"

C16_ClientCredentialsEnvRequired ==
  \A i \in Invocations :
    (/\ Started(i)
     /\ BaseUrlAvailable(i)
     /\ ClientCredentialsSelected(context[i])
     /\ ClientCredentialsEnvMissing(context[i]))
    => /\ pc[i] = "done"
       /\ Raised(i, ClientCredentialsEnvMessage)
       /\ authHeader[i] = Undef
       /\ requests[i] = <<>>

\* the token URL is set and the client id is not
C16_Witness ==
  \E i \in Invocations :
    /\ ClientCredentialsSelected(context[i])
    /\ Has(context[i].environment.OAUTH2_CLIENT_CREDENTIALS_TOKEN_URL)
    /\ ~Has(context[i].environment.OAUTH2_CLIENT_CREDENTIALS_CLIENT_ID)
    /\ Raised(i, ClientCredentialsEnvMessage)
    /\ requests[i] = <<>>

(***************************************************************************)
(* C17: in the token exchange a non-success HTTP status makes the resolver *)
(* fail with an error that includes the status code and text; a success    *)
(* response without access_token makes it fail with a distinct error; in   *)
(* both cases invoke is aborted with no Slack request; only a success      *)
(* response with an access_token yields the header "Bearer " +             *)
(* access_token.                                                           *)
(***************************************************************************)
TokenAnswered(i) == tokenResponse[i] # Undef /\ tokenResponse[i].net
NoSlackRequest(i) ==
  RequestsTo(i, "users.lookupByEmail") = {} /\ RequestsTo(i, "chat.postMessage") = {}
NoAccessTokenMessage == "No access_token in OAuth2 response"
TokenHasAccessToken(r) ==
  HttpOk(r.status) /\ r.json.t = "object" /\ Truthy(r.json.access_token)

C17_TokenExchange ==
  \A i \in Invocations :
    TokenAnswered(i) =>
      LET r == tokenResponse[i] IN
      /\ ~HttpOk(r.status) =>
           /\ outcome[i].kind = "throw"
           /\ Includes(outcome[i].error.message, ToString(r.status))
           /\ Includes(outcome[i].error.message, r.statusText)
           /\ NoSlackRequest(i)
      /\ (HttpOk(r.status) /\ r.json.t = "object" /\ ~Truthy(r.json.access_token)) =>
           /\ Raised(i, NoAccessTokenMessage)
           /\ ~Includes(NoAccessTokenMessage, "OAuth2 token request failed")
           /\ NoSlackRequest(i)
      /\ authHeader[i] # Undef =>
           /\ TokenHasAccessToken(r)
           /\ authHeader[i] = Str("Bearer " \o r.json.access_token.s)

(***************************************************************************)
(* C18: within one invocation the Authorization value is resolved exactly  *)
(* once, before the first Slack request, so at most one token request is   *)
(* issued; the lookup request and the send request carry the identical     *)
(* Authorization value.                                                    *)
(***************************************************************************)
SlackRequests(i) == RequestsTo(i, "users.lookupByEmail") \cup RequestsTo(i, "chat.postMessage")

C18_ResolvedBeforeRequests ==
  \A i \in Invocations :
    /\ Cardinality(RequestsTo(i, "token")) <= 1
    /\ \A k \in RequestsTo(i, "token") : \A j \in SlackRequests(i) : k < j
    /\ \A k \in Positions(i, "request:users.lookupByEmail") :
         /\ Cardinality(Positions(i, "request:token"))
              = Cardinality(Positions(i, "response:token"))
         /\ \A t \in Positions(i, "response:token") : t < k
    /\ \A j \in SlackRequests(i) :
         /\ authHeader[i] # Undef
         /\ requests[i][j].headers.Authorization = authHeader[i]
    /\ \A j, k \in SlackRequests(i) :
         requests[i][j].headers.Authorization = requests[i][k].headers.Authorization

\* the resolved value is never replaced
C18_ResolvedOnce ==
  \A i \in Invocations : authHeader[i] # Undef => authHeader'[i] = authHeader[i]

C18_AuthorizationOnce == []C18_ResolvedBeforeRequests /\ [][C18_ResolvedOnce]_vars

\* a token was fetched, and the lookup and the send both carried it
C18_Witness ==
  \E i \in Invocations :
    /\ Len(requests[i]) = 3
    /\ requests[i][1].api = "token"
    /\ requests[i][2].api = "users.lookupByEmail"
    /\ requests[i][3].api = "chat.postMessage"
    /\ requests[i][2].headers.Authorization = Str("Bearer tk-9")
    /\ requests[i][3].headers.Authorization = Str("Bearer tk-9")

(***************************************************************************)
(* C19: invoke returns an Action Result if and only if the lookup response *)
(* is HTTP ok with JSON ok true and a user.id and the send response is     *)
(* HTTP ok with JSON ok exactly true; in every other case it raises (for   *)
(* an HTTP-ok send whose JSON ok is not true: "Slack API error during      *)
(* message send: {error or 'Unknown error'}"), returns no partial result   *)
(* and issues no further HTTP request after the first failing step.        *)
(***************************************************************************)
HttpOkSendBody(i) ==
  /\ messageResponse[i] # Undef
  /\ messageResponse[i].net
  /\ HttpOk(messageResponse[i].status)
  /\ messageResponse[i].json.t = "object"
SendApiError(i) ==
  "Slack API error during message send: "
    \o (IF messageResponse[i].json.error.t = "string" /\ messageResponse[i].json.error.s # ""
        THEN messageResponse[i].json.error.s
        ELSE "Unknown error")
\* the step at which the invocation failed, and the requests allowed by then
NoRequestAfterFailure(i) ==
  /\ inflight[i] = {}
  /\ (tokenResponse[i] # Undef /\ lookupResponse[i] = Undef) => NoSlackRequest(i)
  /\ (lookupResponse[i] # Undef /\ messageResponse[i] = Undef) =>
       RequestsTo(i, "chat.postMessage") = {}
  /\ (tokenResponse[i] = Undef /\ lookupResponse[i] = Undef) => requests[i] = <<>>
\* the result is whole: every field of the Action Result is there
WholeResult(i) ==
  /\ outcome[i].value.status = "success"
  /\ outcome[i].value.userEmail = params[i].userEmail
  /\ outcome[i].value.userId = UserIdOf(lookupResponse[i].json)
  /\ outcome[i].value.text = params[i].text
  /\ outcome[i].value.ts = messageResponse[i].json.ts
  /\ outcome[i].value.ok = messageResponse[i].json.ok

\* C19 with "ok true" read as ok = true, as stated
C19_ResultIffOkTrue ==
  \A i \in Invocations :
    pc[i] = "done" =>
      /\ outcome[i].kind \in {"return", "throw"}
      /\ outcome[i].kind = "return" <=>
           /\ LookupSucceeded(i) /\ lookupResponse[i].json.ok = Bool(TRUE)
           /\ HttpOkSendBody(i) /\ messageResponse[i].json.ok = Bool(TRUE)
      /\ outcome[i].kind = "return" => WholeResult(i)
      /\ (HttpOkSendBody(i) /\ messageResponse[i].json.ok # Bool(TRUE)) =>
           Raised(i, SendApiError(i))
      /\ outcome[i].kind = "throw" => NoRequestAfterFailure(i)

\* C19 amended: ok counts when it is truthy
C19_ResultIffOkTruthy ==
  \A i \in Invocations :
    pc[i] = "done" =>
      /\ outcome[i].kind \in {"return", "throw"}
      /\ outcome[i].kind = "return" <=>
           /\ LookupSucceeded(i)
           /\ HttpOkSendBody(i) /\ Truthy(messageResponse[i].json.ok)
      /\ outcome[i].kind = "return" => WholeResult(i)
      /\ (HttpOkSendBody(i) /\ ~Truthy(messageResponse[i].json.ok)) =>
           Raised(i, SendApiError(i))
      /\ outcome[i].kind = "throw" => NoRequestAfterFailure(i)

\* an invocation that is over issues no request
C19_NoRequestWhenDone ==
  \A i \in Invocations : pc[i] = "done" => requests'[i] = requests[i]

C19_ResultOrRaise == []C19_ResultIffOkTruthy /\ [][C19_NoRequestWhenDone]_vars

\* the send was answered HTTP ok with ok false and no error field
C19_Witness ==
  \E i \in Invocations :
    /\ pc[i] = "done"
    /\ LookupSucceeded(i)
    /\ HttpOkSendBody(i)
    /\ messageResponse[i].json.ok = Bool(FALSE)
    /\ messageResponse[i].json.error = Undef
    /\ Raised(i, "Slack API error during message send: Unknown error")
    /\ Len(requests[i]) = 2

(***************************************************************************)
(* C20: a configuration error raised by invoke (no base URL, no            *)
(* authentication configured, client-credentials environment missing) is   *)
(* never retried: handed that error, the error handler re-raises it and    *)
(* never returns {status: "retry_requested"}.                              *)
(***************************************************************************)
ConfigurationErrors == {NoUrlMessage, NoAuthMessage, ClientCredentialsEnvMessage}

\* invoke raises one of the configuration errors exactly when it is
\* configured without a base URL, without a credential, or with the
\* client-credentials method and an incomplete environment
ConfigErrorIffMisconfigured(i) ==
  (outcome[i].kind = "throw" /\ outcome[i].error.message \in ConfigurationErrors)
    <=> \/ ~BaseUrlAvailable(i)
        \/ NoCredential(context[i].secrets)
        \/ ClientCredentialsSelected(context[i]) /\ ClientCredentialsEnvMissing(context[i])

UsesClientCredentials(i) == ClientCredentialsSelected(context[i])
\* the Authorization value invocation i has a right to: the one its own
\* secrets give, or the one its own token response gives
OwnAuthorization(i) ==
  IF UsesClientCredentials(i)
  THEN IF TokenAnswered(i) /\ TokenHasAccessToken(tokenResponse[i])
       THEN Str("Bearer " \o tokenResponse[i].json.access_token.s)
       ELSE Undef
  ELSE LET a == getAuthorizationHeader(context[i]) IN
       IF a.kind = "return" THEN Str(a.value) ELSE Undef
\* the texts of the jobs as they stand in a JSON document
EscapedText(text) ==
  CASE text = "hi" -> "hi"
    [] text = "yo" -> "yo"
    [] text = "say \"hi\"\n" -> "say \\\"hi\\\"\\n"
\* the JSON document {channel, text}; the user ids of the lookup responses
\* need no escape
ExpectedSendBody(uid, text) ==
  "{\"channel\":\"" \o uid \o "\",\"text\":\"" \o EscapedText(text) \o "\"}"
\* the recipients of Emails as they stand in a query string
EncodedEmail(e) ==
  CASE e = "a@x.io" -> "a%40x.io"
    [] e = "u429@x.io" -> "u429%40x.io"
\* how invocation i ended, without the identity of the error object
Ending(i) ==
  IF outcome[i].kind = "throw" THEN [kind |-> "throw", message |-> outcome[i].error.message]
  ELSE outcome[i]
\* what invocation i was given
Given(i) ==
  <<params[i], context[i], build[i], pc[i], tokenResponse[i], lookupResponse[i],
    messageResponse[i]>>

C21_Isolation ==
  /\ active = Invocations
  /\ \A i \in Invocations :
       /\ \A k \in SlackRequests(i) :
            /\ OwnAuthorization(i) # Undef
            /\ requests[i][k].headers.Authorization = OwnAuthorization(i)
       /\ \A k \in RequestsTo(i, "users.lookupByEmail") :
            EndsWith(requests[i][k].url, "?email=" \o EncodedEmail(params[i].userEmail))
       /\ \A k \in RequestsTo(i, "chat.postMessage") :
            /\ LookupSucceeded(i)
            /\ requests[i][k].body
                 = ExpectedSendBody(UserIdOf(lookupResponse[i].json).s, params[i].text)
       /\ (UsesClientCredentials(i) /\ SlackRequests(i) # {}) =>
            /\ requests[i][1].api = "token"
            /\ requests[i][1].url
                 = context[i].environment.OAUTH2_CLIENT_CREDENTIALS_TOKEN_URL.s
            /\ TokenAnswered(i)
       /\ outcome[i].kind = "throw" => outcome[i].error.id[1] = i
       /\ outcome[i].kind = "return" =>
            outcome[i].value = ActionResult(params[i].userEmail,
                                            UserIdOf(lookupResponse[i].json),
                                            params[i].text, messageResponse[i].json)
  /\ \A i, j \in Invocations :
       Given(i) = Given(j) => (requests[i] = requests[j] /\ Ending(i) = Ending(j))

\* two invocations with the same client-credentials context run side by
\* side; each got its own token and its own user id, and each send carries
\* the token and the user id of its own invocation
C21_Witness ==
  \E i, j \in Invocations :
    /\ i # j
    /\ context[i] = context[j]
    /\ UsesClientCredentials(i)
    /\ Len(requests[i]) = 3 /\ Len(requests[j]) = 3
    /\ tokenResponse[i].json.access_token = Str("tk-9")
    /\ tokenResponse[j].json.access_token = Str("tk-7")
    /\ requests[i][3].headers.Authorization = Str("Bearer tk-9")
    /\ requests[j][3].headers.Authorization = Str("Bearer tk-7")
    /\ requests[i][3].body = "{\"channel\":\"U1\",\"text\":\"yo\"}"
    /\ requests[j][3].body = "{\"channel\":\"U2\",\"text\":\"yo\"}"
    /\ pc[i] = "send" /\ pc[j] = "send"

(***************************************************************************)
(* C22: whenever invoke issues a chat.postMessage request, its JSON body   *)
(* is {channel, text}, channel being the non-empty user.id of this         *)
(* invocation's lookup response and text being params.text unchanged; a    *)
(* lookup response with JSON ok and no user.id makes invoke raise "No user *)
(* ID found in response for email: {userEmail}" and leads to no send.      *)
(***************************************************************************)
NoUserIdMessage(i) == "No user ID found in response for email: " \o params[i].userEmail
\* the lookup answered HTTP ok with a truthy ok and without a user id
LookupWithoutUserId(i) ==
  /\ HttpOkLookupBody(i)
  /\ Truthy(lookupResponse[i].json.ok)
  /\ ~Truthy(UserIdOf(lookupResponse[i].json))

C22_SendBody ==
  \A i \in Invocations :
    /\ \A k \in RequestsTo(i, "chat.postMessage") :
         /\ HttpOkLookupBody(i)
         /\ UserIdOf(lookupResponse[i].json).t = "string"
         /\ UserIdOf(lookupResponse[i].json).s # ""
         /\ requests[i][k].body
              = ExpectedSendBody(UserIdOf(lookupResponse[i].json).s, params[i].text)
    /\ LookupWithoutUserId(i) =>
         /\ pc[i] = "done"
         /\ Raised(i, NoUserIdMessage(i))
         /\ RequestsTo(i, "chat.postMessage") = {}

\* a text with quotes and a newline was sent to the looked-up user
C22_Witness ==
  \E i \in Invocations :
    /\ params[i].text = "say \"hi\"\n"
    /\ Len(requests[i]) = 2
    /\ requests[i][2].api = "chat.postMessage"
    /\ requests[i][2].body = "{\"channel\":\"U2\",\"text\":\"say \\\"hi\\\"\\n\"}"
    /\ lookupResponse[i].json.user.id = Str("U2")

====
